---------------------------- MODULE Spec2Model ----------------------------
(***************************************************************************)
(* A model of rabbot's broker facade (src/index.js): the registry of named *)
(* (Connection, Topology) pairs and the relay of their lifecycle events,   *)
(* the ack-batch timer, the handler dispatch and failure policy, the       *)
(* unhandled-message policy, publish and the request/reply correlation.    *)
(*                                                                         *)
(* Strings that the code inspects character by character (queue names,     *)
(* topics) are sequences of one-character strings; "." is the hierarchy    *)
(* separator of postal topics.  JavaScript's undefined is the value Undef. *)
(***************************************************************************)
EXTENDS Integers, Sequences, FiniteSets, TLC

\* ---------------------------------------------------------------- bounds
\* Number of (Connection, Topology) pairs that may be constructed in a run.
MaxPairs == 2
\* Number of handle() subscriptions that may be registered in a run.
MaxSubs == 2
\* Number of request() calls in a run.
MaxRequests == 2
\* Timer handles: one referenced by ackIntervalId, one being allocated, one spare.
NumTimerIds == 3

\* ------------------------------------------------------------- constants
\* src/index.js:72, the interval the "connected" handler arms the timer with.
AckIntervalMs == 500
\* The intervals a caller passes to setAckInterval().
Intervals == {AckIntervalMs, 2 * AckIntervalMs}

Undef == "undefined"
\* Connection names a caller uses; "" is an empty (falsy) name.
Names == {"default", "a"}
LifecycleKinds == {"connected", "closed", "failed", "unreachable"}
ConnStates == {"none", "connecting", "connected", "closed", "failed", "unreachable"}
PairIds == 1..MaxPairs
TimerIds == 1..NumTimerIds
NoEvent == [id |-> 0, kind |-> "none"]
NoAggregate == [kind |-> "none", pending |-> {}, state |-> "none"]
\* A facade call: what it was, the connection name it resolved, how it ended
\* ("returned", "promise" or "threw"), the Topology it returned and the
\* Connection it called connect() on (pair ids, 0 for none).
Call(op, name, outcome, topology, connectOn) ==
    [op |-> op, name |-> name, outcome |-> outcome, topology |-> topology,
     connectOn |-> connectOn]
NoCall == Call("none", "", "returned", 0, 0)

VARIABLES
    connections,    \* this.connections: name -> pair id (0: no such key)
    nextPair,       \* pairs constructed so far
    pairName,       \* pair id -> options.name it was constructed with
    connState,      \* pair id -> lifecycle state of its Connection
    closeP,         \* pair id -> "pending" while a close() promise is unsettled
    ackIntervalId,  \* this.ackIntervalId: 0 (undefined) or the last timer handle
    timers,         \* timer handle -> its interval in ms (0: not armed)
    emitted,        \* the broker events emitted by the last step, in order
    raised,         \* the lifecycle event a Connection raised in the last step
    lastCall,       \* the last facade call and what it returned or threw
    agg,            \* the promise of the last closeAll()/shutdown()
    channels,       \* pair id -> the keys of its Topology's channel registry
    atFailure,      \* pair id -> the registry keys it had when it last failed
    subscribeCalls, \* pair id -> the queues queue.subscribe() was called on
    signals,        \* the ack signals published by the last step
    hasHandles,     \* this.hasHandles
    autoNack,       \* this.autoNack
    nackMode,       \* whether the most recent mode call was nackOnError()
    subs,           \* the subscriptions on the dispatch channel, in order
    onUnhandled,        \* unhandledStrategies.onUnhandled
    customOnUnhandled,  \* unhandledStrategies.customOnUnhandled
    lastPolicyCall, \* the most recent unhandled-policy call
    lastDelivery,   \* the last inbound message and what became of it
    publishTimeout, \* pair id -> whether its options set publishTimeout
    requests,       \* the request() calls made, in order: their futures
    lastPublish,    \* the last publish() call and what became of it
    lastReply       \* the last reply that arrived on the responses channel

lifecycleVars == <<connections, nextPair, pairName, connState, closeP,
                   ackIntervalId, timers, emitted, raised, lastCall, agg, channels,
                   atFailure, subscribeCalls, signals>>

dispatchVars == <<hasHandles, autoNack, nackMode, subs, onUnhandled,
                  customOnUnhandled, lastPolicyCall, lastDelivery>>

messagingVars == <<publishTimeout, requests, lastPublish, lastReply>>

vars == <<lifecycleVars, dispatchVars, messagingVars>>

\* What addConnection leaves alone, besides the lifecycle variables.
notAddConnection == <<dispatchVars, requests, lastPublish, lastReply>>

\* What the lifecycle handlers, the close calls and the ack timer leave alone.
notLifecycle == <<dispatchVars, messagingVars>>

\* ------------------------------------------------------------ addConnection
\* The argument of addConnection: no argument at all, or an options object
\* whose name is absent (Undef), empty or a string.
AllConnOptions ==
    [given : {TRUE}, name : Names \cup {Undef, ""}, publishTimeout : BOOLEAN]
        \cup {[given |-> FALSE, name |-> Undef, publishTimeout |-> FALSE]}

\* The options that set no publish deadline.
ConnOptions == {o \in AllConnOptions : ~o.publishTimeout}

\* index.js:60. options ? ( options.name || "default" ) : "default"
ResolveName(options) ==
    IF ~options.given THEN "default"
    ELSE IF options.name \in {Undef, ""} THEN "default"
    ELSE options.name

\* index.js:66. !this.connections[ name ]
IsRegistered(name) == connections[name] # 0

Registered == {connections[n] : n \in {m \in Names : connections[m] # 0}}

\* Connection.connect() of the transport: a closed or unreachable connection
\* starts connecting again, any other keeps its state.
ConnectEffect(id) ==
    IF connState[id] \in {"closed", "unreachable"}
    THEN [connState EXCEPT ![id] = "connecting"]
    ELSE connState

\* addConnection without the test of index.js:66: every call constructs a pair.
AddConnectionAlwaysNew(options) ==
    LET name == ResolveName(options) IN
    /\ nextPair < MaxPairs
    /\ nextPair' = nextPair + 1
    /\ pairName' = [pairName EXCEPT ![nextPair + 1] = name]
    /\ connState' = [connState EXCEPT ![nextPair + 1] = "connecting"]
    /\ connections' = [connections EXCEPT ![name] = nextPair + 1]
    /\ publishTimeout' = [publishTimeout EXCEPT ![nextPair + 1] = options.publishTimeout]
    /\ lastCall' = Call("addConnection", name, "returned", nextPair + 1, 0)
    /\ emitted' = <<>>
    /\ raised' = NoEvent
    /\ signals' = 0
    /\ UNCHANGED subscribeCalls
    /\ UNCHANGED <<closeP, ackIntervalId, timers, agg, channels, atFailure>>

\* index.js:59-94.
AddConnection(options) ==
    LET name == ResolveName(options) IN
    /\ IF ~IsRegistered(name)
       THEN /\ nextPair < MaxPairs
            /\ nextPair' = nextPair + 1
            /\ pairName' = [pairName EXCEPT ![nextPair + 1] = name]
            /\ connState' = [connState EXCEPT ![nextPair + 1] = "connecting"]
            /\ connections' = [connections EXCEPT ![name] = nextPair + 1]
            /\ publishTimeout' = [publishTimeout EXCEPT ![nextPair + 1] = options.publishTimeout]
            /\ lastCall' = Call("addConnection", name, "returned", nextPair + 1, 0)
       ELSE /\ connState' = ConnectEffect(connections[name])
            /\ lastCall' = Call("addConnection", name, "returned",
                                 connections[name], connections[name])
            /\ UNCHANGED <<nextPair, pairName, connections, publishTimeout>>
    /\ emitted' = <<>>
    /\ raised' = NoEvent
    /\ signals' = 0
    /\ UNCHANGED subscribeCalls
    /\ UNCHANGED <<closeP, ackIntervalId, timers, agg, channels, atFailure>>

\* ---------------------------------------------------------------- ack timer
\* index.js:138-140. clearInterval( this.ackIntervalId ); the handle is kept.
ClearedTimers ==
    IF ackIntervalId = 0 THEN timers ELSE [timers EXCEPT ![ackIntervalId] = 0]

\* setInterval() returns a handle that is no live timer and not the old handle.
FreeTimerIds(ts) == {t \in TimerIds : ts[t] = 0 /\ t # ackIntervalId}

FreshTimer(ts) == CHOOSE t \in FreeTimerIds(ts) : \A u \in FreeTimerIds(ts) : t <= u

\* setAckInterval without the clearing of index.js:286-288.
ArmedWithoutClearing(interval) ==
    [id |-> FreshTimer(timers), timers |-> [timers EXCEPT ![FreshTimer(timers)] = interval]]

\* index.js:285-290.
ArmedBySetAckInterval(interval) ==
    LET ts == IF ackIntervalId # 0 THEN ClearedTimers ELSE timers
    IN  [id |-> FreshTimer(ts), timers |-> [ts EXCEPT ![FreshTimer(ts)] = interval]]

CanArm == FreeTimerIds(ClearedTimers) # {} /\ FreeTimerIds(timers) # {}

TimerArmed == \E t \in TimerIds : timers[t] # 0

\* index.js:285-290, called by the application.
SetAckInterval(interval) ==
    /\ CanArm
    /\ ackIntervalId' = ArmedBySetAckInterval(interval).id
    /\ timers' = ArmedBySetAckInterval(interval).timers
    /\ lastCall' = Call("setAckInterval", "", "returned", 0, 0)
    /\ emitted' = <<>>
    /\ raised' = NoEvent
    /\ signals' = 0
    /\ UNCHANGED subscribeCalls
    /\ UNCHANGED <<connections, nextPair, pairName, connState, closeP, agg, channels,
                   atFailure>>

\* index.js:138-140, called by the application.
ClearAckInterval ==
    /\ timers' = ClearedTimers
    /\ lastCall' = Call("clearAckInterval", "", "returned", 0, 0)
    /\ emitted' = <<>>
    /\ raised' = NoEvent
    /\ signals' = 0
    /\ UNCHANGED subscribeCalls
    /\ UNCHANGED <<connections, nextPair, pairName, connState, closeP,
                   ackIntervalId, agg, channels, atFailure>>

\* index.js:289 and 121-123. An interval of ms elapses: every timer armed with
\* it calls batchAck once, which publishes one "ack" on the signal channel
\* whatever the number of pending messages.
IntervalElapses(ms) ==
    /\ signals' = Cardinality({t \in TimerIds : timers[t] = ms})
    /\ lastCall' = NoCall
    /\ emitted' = <<>>
    /\ raised' = [id |-> 0, kind |-> "none"]
    /\ UNCHANGED <<connections, nextPair, pairName, connState, closeP,
                   ackIntervalId, timers, agg, channels, atFailure, subscribeCalls>>

\* ------------------------------------------------------ lifecycle handlers
\* connection.name: the Connection carries the name it was constructed with.
ConnName(id) == pairName[id]

\* index.js:69-86. What the four handlers wired by addConnection emit, in
\* order: emit( event ) and then emit( qualified event ).
EmittedBy(id, kind) ==
    CASE kind = "connected" ->
            <<"connected", ConnName(id) \o ".connection.opened">>
      [] kind = "closed" ->
            <<"closed", ConnName(id) \o ".connection.closed">>
      [] kind = "failed" ->
            <<"failed", pairName[id] \o ".connection.failed">>
      [] kind = "unreachable" ->
            \* this.emit( name, ".connection.unreachable" ): the event is
            \* named by the connection alone, the suffix is its payload.
            <<"unreachable", pairName[id]>>

\* The handlers with a timer that follows the connections: "closed" clears it.
AckAfterClosedClears(kind) ==
    CASE kind = "connected" -> ArmedBySetAckInterval(AckIntervalMs)
      [] kind \in {"unreachable", "closed"} ->
            [id |-> ackIntervalId, timers |-> ClearedTimers]
      [] OTHER -> [id |-> ackIntervalId, timers |-> timers]

\* The handlers with a reference-counted timer: "unreachable" leaves it.
AckAfterUnreachableKeeps(kind) ==
    CASE kind = "connected" -> ArmedBySetAckInterval(AckIntervalMs)
      [] OTHER -> [id |-> ackIntervalId, timers |-> timers]

\* index.js:72 and 85. What a handler does to the ack timer:
\* [id, timers] as after the handler ran.
AckAfter(kind) ==
    CASE kind = "connected" -> ArmedBySetAckInterval(AckIntervalMs)
      [] kind = "unreachable" -> [id |-> ackIntervalId, timers |-> ClearedTimers]
      [] OTHER -> [id |-> ackIntervalId, timers |-> timers]

\* The promise of closeAll()/shutdown() after the close() of pair id settled.
\* when.all fulfils once every member has, and rejects with the first
\* rejection; pending keeps the closes that are still unsettled.
AggSettle(id, ok) ==
    IF id \notin agg.pending THEN agg
    ELSE [kind |-> agg.kind,
          pending |-> agg.pending \ {id},
          state |-> IF agg.state # "pending" THEN agg.state
                    ELSE IF ~ok THEN "rejected"
                    ELSE IF agg.pending = {id} THEN "fulfilled"
                    ELSE "pending"]

\* index.js:294-296. shutdown's then-callback runs when closeAll fulfils.
ShutdownCallbackRuns(before, after) ==
    /\ after.kind = "shutdown"
    /\ before.state = "pending"
    /\ after.state = "fulfilled"

\* A Topology that forgets its declarations when its connection fails.
ChannelsDroppedOnFailure(id, kind) ==
    IF kind = "failed" THEN [channels EXCEPT ![id] = {}] ELSE channels

\* The registries after a lifecycle event: the Topology keeps its channel
\* objects over failures and reconnections (spec section 3, Topology), and the
\* handlers of index.js:69-86 touch no registry.
ChannelsAfterEvent(id, kind) == channels

\* A Connection raises a lifecycle event: the handler of index.js:69-86 runs.
Raise(id, kind, newState) ==
    /\ connState' = [connState EXCEPT ![id] = newState]
    /\ raised' = [id |-> id, kind |-> kind]
    /\ emitted' = EmittedBy(id, kind)
    /\ kind = "connected" => CanArm
    /\ LET settled == IF kind = "closed" THEN AggSettle(id, TRUE) ELSE agg
           ack == AckAfter(kind)
       IN  /\ agg' = settled
           /\ ackIntervalId' = ack.id
           /\ timers' = IF ShutdownCallbackRuns(agg, settled) /\ ack.id # 0
                        THEN [ack.timers EXCEPT ![ack.id] = 0]
                        ELSE ack.timers
    /\ closeP' = IF kind = "closed" THEN [closeP EXCEPT ![id] = "none"] ELSE closeP
    /\ lastCall' = NoCall
    /\ atFailure' = IF kind = "failed" THEN [atFailure EXCEPT ![id] = channels[id]]
                    ELSE atFailure
    /\ signals' = 0
    /\ channels' = ChannelsAfterEvent(id, kind)
    /\ UNCHANGED <<connections, nextPair, pairName, subscribeCalls>>

\* The transport's state machine (spec section 4.1): a connecting or failed
\* (retrying) connection may connect.
ConnConnected(id) ==
    /\ id <= nextPair
    /\ connState[id] \in {"connecting", "failed"}
    /\ Raise(id, "connected", "connected")

ConnFailed(id) ==
    /\ id <= nextPair
    /\ connState[id] \in {"connecting", "connected"}
    /\ Raise(id, "failed", "failed")

\* The retries of a failed connection exceeded failAfter.
ConnUnreachable(id) ==
    /\ id <= nextPair
    /\ connState[id] = "failed"
    /\ Raise(id, "unreachable", "unreachable")

\* A connection closes: on a close() of the broker, which then fulfils, or
\* closed by the server.
ConnClosed(id) ==
    /\ id <= nextPair
    /\ closeP[id] = "pending" \/ connState[id] = "connected"
    /\ connState[id] # "closed" \/ closeP[id] = "pending"
    /\ Raise(id, "closed", "closed")

\* The close() of a connection fails: its promise rejects, no event.
CloseRejected(id) ==
    /\ id <= nextPair
    /\ closeP[id] = "pending"
    /\ closeP' = [closeP EXCEPT ![id] = "none"]
    /\ agg' = AggSettle(id, FALSE)
    /\ emitted' = <<>>
    /\ raised' = NoEvent
    /\ signals' = 0
    /\ UNCHANGED subscribeCalls
    /\ lastCall' = NoCall
    /\ UNCHANGED <<connections, nextPair, pairName, connState, ackIntervalId,
                   timers, channels, atFailure>>

\* ------------------------------------------------- close, closeAll, shutdown
\* index.js:151, and every other connectionName = connectionName || "default".
OrDefault(connectionName) ==
    IF connectionName \in {Undef, ""} THEN "default" ELSE connectionName

\* index.js:152. this.connections[ connectionName ].connection reads a
\* property of undefined when the name is no key of this.connections.
CloseThrows(name) == ~IsRegistered(name)

\* index.js:154-157 for the pairs ids: reset() of the Topology clears its
\* registry, close( reset ) of the Connection returns a promise.
ClosePairs(ids, reset) ==
    /\ channels' = [i \in PairIds |-> IF reset /\ i \in ids THEN {} ELSE channels[i]]
    /\ closeP' = [i \in PairIds |-> IF i \in ids THEN "pending" ELSE closeP[i]]
    /\ atFailure' = [i \in PairIds |-> IF reset /\ i \in ids THEN {} ELSE atFailure[i]]

\* index.js:150-161.
Close(connectionName, reset) ==
    LET name == OrDefault(connectionName) IN
    /\ IF CloseThrows(name)
       THEN /\ lastCall' = Call("close", name, "threw", 0, 0)
            /\ UNCHANGED <<channels, closeP, atFailure>>
       ELSE /\ ClosePairs({connections[name]}, reset)
            /\ lastCall' = Call("close", name, "promise", 0, 0)
    /\ emitted' = <<>>
    /\ raised' = NoEvent
    /\ signals' = 0
    /\ UNCHANGED subscribeCalls
    /\ UNCHANGED <<connections, nextPair, pairName, connState, ackIntervalId,
                   timers, agg>>

\* index.js:142-148. One close per value of this.connections, each under the
\* name of its Topology; when.all of no promise is fulfilled.
CloseAllOf(kind, reset) ==
    /\ agg.pending = {}
    /\ ClosePairs(Registered, reset)
    /\ agg' = [kind |-> kind, pending |-> Registered,
               state |-> IF Registered = {} THEN "fulfilled" ELSE "pending"]

CloseAll(reset) ==
    /\ CloseAllOf("closeAll", reset)
    /\ lastCall' = Call("closeAll", "", "promise", 0, 0)
    /\ emitted' = <<>>
    /\ raised' = NoEvent
    /\ signals' = 0
    /\ UNCHANGED subscribeCalls
    /\ UNCHANGED <<connections, nextPair, pairName, connState, ackIntervalId, timers>>

\* index.js:292-297. closeAll( true ), then clearAckInterval once it fulfilled.
Shutdown ==
    /\ CloseAllOf("shutdown", TRUE)
    /\ timers' = IF ShutdownCallbackRuns([agg EXCEPT !.state = "pending"], agg')
                 THEN ClearedTimers ELSE timers
    /\ lastCall' = Call("shutdown", "", "promise", 0, 0)
    /\ emitted' = <<>>
    /\ raised' = NoEvent
    /\ signals' = 0
    /\ UNCHANGED subscribeCalls
    /\ UNCHANGED <<connections, nextPair, pairName, connState, ackIntervalId>>

\* index.js:274-277. (this.configurations is written by config.js only.)
Reset ==
    /\ connections' = [n \in Names |-> 0]
    /\ lastCall' = Call("reset", "", "returned", 0, 0)
    /\ emitted' = <<>>
    /\ raised' = NoEvent
    /\ signals' = 0
    /\ UNCHANGED subscribeCalls
    /\ UNCHANGED <<nextPair, pairName, connState, closeP, ackIntervalId, timers,
                   agg, channels, atFailure>>


\* ------------------------------------------------------------------ strings
\* A string the code takes apart is a sequence of tokens: "." and "-" are the
\* characters of that name, "#" is postal's wildcard, any other token is a
\* run of other characters.  <<>> is an argument that is absent or empty.
Str(token) == <<token>>
Orders == Str("orders")
OrdersDotCreated == <<"orders", ".", "created">>
Created == Str("created")
Deleted == Str("deleted")
Absent == <<>>

QueueNames == {Orders, OrdersDotCreated}
\* Queue names that differ in "." against "-" only.
OrdersDotEu == <<"orders", ".", "eu">>
OrdersDashEu == <<"orders", "-", "eu">>
SimilarQueueNames == {Orders, OrdersDotEu, OrdersDashEu}
MessageTypes == {Absent, Created, Deleted}

\* index.js:188. queueName.replace( /[.]/g, "-" )
Sanitize(name) == [i \in DOMAIN name |-> IF name[i] = "." THEN "-" ELSE name[i]]

\* index.js:196. parts.join( "." )
RECURSIVE Join(_)
Join(parts) ==
    IF Len(parts) = 0 THEN <<>>
    ELSE IF Len(parts) = 1 THEN parts[1]
    ELSE parts[1] \o <<".">> \o Join(Tail(parts))

\* index.js:183-196. The topic handle() subscribes on: the prefix is "#", or
\* the queue name when it is a string; the type is appended unless empty.
HandleTopic(messageType, queueName) ==
    LET prefix == IF queueName # Absent THEN Sanitize(queueName) ELSE Str("#")
        parts == IF messageType # Absent THEN <<prefix, messageType>> ELSE <<prefix>>
    IN  Join(parts)

\* topic.split( "." ): the segments of a topic.
RECURSIVE Split(_)
Split(topic) ==
    IF \A i \in DOMAIN topic : topic[i] # "." THEN <<topic>>
    ELSE LET dot == CHOOSE i \in DOMAIN topic :
                        topic[i] = "." /\ \A j \in 1..(i - 1) : topic[j] # "."
         IN  <<SubSeq(topic, 1, dot - 1)>>
                 \o Split(SubSeq(topic, dot + 1, Len(topic)))

\* postal's binding resolver, on segments: "#" stands for zero or more
\* segments, "*" for exactly one, any other segment for itself.
RECURSIVE SegmentsMatch(_, _)
SegmentsMatch(binding, topic) ==
    IF binding = <<>> THEN topic = <<>>
    ELSE IF Head(binding) = Str("#")
         THEN \/ SegmentsMatch(Tail(binding), topic)
              \/ topic # <<>> /\ SegmentsMatch(binding, Tail(topic))
    ELSE IF Head(binding) = Str("*")
         THEN topic # <<>> /\ SegmentsMatch(Tail(binding), Tail(topic))
    ELSE /\ topic # <<>>
         /\ Head(binding) = Head(topic)
         /\ SegmentsMatch(Tail(binding), Tail(topic))

\* index.js:197. dispatch.subscribe( target, ... ): the published topics the
\* subscription is called for.
TopicMatches(binding, topic) == SegmentsMatch(Split(binding), Split(topic))

\* The topic the queue consumer publishes an inbound message on: the
\* sanitized queue name and, when present, the message's type.
DispatchTopic(queueName, messageType) ==
    IF messageType # Absent
    THEN Join(<<Sanitize(queueName), messageType>>)
    ELSE Sanitize(queueName)

\* -------------------------------------------------------------------- handle
NoDelivery ==
    [queue |-> Absent, mtype |-> Absent, nsubs |-> 0, invoked |-> {},
     failed |-> {}, nacked |-> {}, nackMode |-> FALSE, policyCall |-> "none",
     outcome |-> "none"]

\* handle() with the catch of index.js:198-203 attached whatever the mode.
CatchAttachedAlways == TRUE

\* index.js:198. if ( this.autoNack ) subscription.catch( ... msg.nack() )
CatchAttached == autoNack

\* index.js:183-206. The subscription keeps the arguments it was made with
\* and whether the broker was in nack-on-error mode when it was made.
Handle(messageType, queueName) ==
    /\ Len(subs) < MaxSubs
    /\ hasHandles' = TRUE
    /\ subs' = Append(subs, [topic |-> HandleTopic(messageType, queueName),
                             catch |-> CatchAttached,
                             mtype |-> messageType,
                             queue |-> queueName,
                             nackMode |-> nackMode])
    /\ UNCHANGED <<autoNack, nackMode, onUnhandled, customOnUnhandled,
                   lastPolicyCall, lastDelivery>>

\* index.js:208-210.
IgnoreHandlerErrors ==
    /\ autoNack' = FALSE
    /\ nackMode' = FALSE
    /\ UNCHANGED <<hasHandles, subs, onUnhandled, customOnUnhandled,
                   lastPolicyCall, lastDelivery>>

\* index.js:212-214.
NackOnError ==
    /\ autoNack' = TRUE
    /\ nackMode' = TRUE
    /\ UNCHANGED <<hasHandles, subs, onUnhandled, customOnUnhandled,
                   lastPolicyCall, lastDelivery>>

\* ---------------------------------------------------------- unhandled policy
\* index.js:216-218.
NackUnhandled ==
    /\ onUnhandled' = "nackOnUnhandled"
    /\ lastPolicyCall' = "nackUnhandled"
    /\ UNCHANGED <<hasHandles, autoNack, nackMode, subs, customOnUnhandled,
                   lastDelivery>>

\* index.js:224-226.
RejectUnhandled ==
    /\ onUnhandled' = "rejectOnUnhandled"
    /\ lastPolicyCall' = "rejectUnhandled"
    /\ UNCHANGED <<hasHandles, autoNack, nackMode, subs, customOnUnhandled,
                   lastDelivery>>

\* index.js:220-222. handler is "handler", a function of the caller, or Undef
\* when the call passes none.
OnUnhandled(handler) ==
    /\ onUnhandled' = handler
    /\ customOnUnhandled' = handler
    /\ lastPolicyCall' = IF handler = Undef THEN "onUnhandled()" ELSE "onUnhandled(fn)"
    /\ UNCHANGED <<hasHandles, autoNack, nackMode, subs, lastDelivery>>

\* index.js:12-21. What calling unhandledStrategies.onUnhandled( message )
\* does to the message: calling undefined throws a TypeError.
StrategyOutcome(strategy) ==
    CASE strategy = "nackOnUnhandled" -> "nack"
      [] strategy = "rejectOnUnhandled" -> "reject"
      [] strategy = "noop" -> "noop"
      [] strategy = "handler" -> "custom"
      [] strategy = Undef -> "TypeError"

\* ------------------------------------------------------------------ delivery
\* The subscriptions called for a message published on topic.
Matching(topic) == {i \in DOMAIN subs : TopicMatches(subs[i].topic, topic)}

\* The queue consumer publishes an inbound message on the dispatch channel;
\* the handlers in failing throw.  A failing handler's catch (index.js:199-202)
\* nacks the message; a message no subscription is called for is unhandled
\* and goes to unhandledStrategies.onUnhandled.
Deliver(queueName, messageType, failing) ==
    LET matched == Matching(DispatchTopic(queueName, messageType)) IN
    /\ failing \in SUBSET matched
    /\ lastDelivery' =
          [queue |-> queueName, mtype |-> messageType, nsubs |-> Len(subs),
           invoked |-> matched,
           failed |-> failing,
           nacked |-> {i \in failing : subs[i].catch},
           nackMode |-> nackMode,
           policyCall |-> lastPolicyCall,
           outcome |-> IF matched = {} THEN StrategyOutcome(onUnhandled)
                       ELSE "handled"]
    /\ UNCHANGED <<hasHandles, autoNack, nackMode, subs, onUnhandled,
                   customOnUnhandled, lastPolicyCall>>


\* ------------------------------------------------------------- addExchange
ExchangeNames == {"ex"}

\* index.js:175. "exchange:" + name
ExchangeKey(name) == "exchange:" \o name

\* index.js:96-106. form "positional" is addExchange( name, type, options,
\* connectionName ), form "options" is addExchange( options, connectionName );
\* hasOptions tells whether the options object was passed.  The result is the
\* connection the exchange is declared on, or "TypeError".
AddExchangeConnection(form, hasOptions, connectionName) ==
    IF form = "options"
    THEN \* connectionName = type, the second argument as it was passed
         IF connectionName = Undef \/ ~IsRegistered(connectionName)
         THEN "TypeError" ELSE connectionName
    ELSE IF ~hasOptions THEN "TypeError"
    ELSE IF ~IsRegistered(OrDefault(connectionName)) THEN "TypeError"
    ELSE OrDefault(connectionName)

AddExchange(form, name, hasOptions, connectionName) ==
    LET conn == AddExchangeConnection(form, hasOptions, connectionName) IN
    /\ form = "options" => hasOptions
    /\ IF conn = "TypeError"
       THEN /\ lastCall' = Call("addExchange", "", "threw", 0, 0)
            /\ UNCHANGED channels
       ELSE /\ lastCall' = Call("addExchange", conn, "promise", 0, 0)
            /\ channels' = [channels EXCEPT ![connections[conn]] = @ \cup {ExchangeKey(name)}]
    /\ emitted' = <<>>
    /\ raised' = NoEvent
    /\ signals' = 0
    /\ UNCHANGED subscribeCalls
    /\ UNCHANGED <<connections, nextPair, pairName, connState, closeP,
                   ackIntervalId, timers, agg, atFailure>>

\* ------------------------------------------------ addQueue, startSubscription
QueueIds == {"q", "r"}

\* index.js:180. "queue:" + name
QueueKey(name) == "queue:" \o name

\* index.js:108-115. options.name = name reads no property but writes one of
\* options, which throws when no options object is passed; the queue is
\* declared on this.connections[ connectionName || "default" ].
AddQueueConnection(hasOptions, connectionName) ==
    IF ~hasOptions THEN "TypeError"
    ELSE IF ~IsRegistered(OrDefault(connectionName)) THEN "TypeError"
    ELSE OrDefault(connectionName)

AddQueue(name, hasOptions, connectionName) ==
    LET conn == AddQueueConnection(hasOptions, connectionName) IN
    /\ IF conn = "TypeError"
       THEN /\ lastCall' = Call("addQueue", "", "threw", 0, 0)
            /\ UNCHANGED channels
       ELSE /\ lastCall' = Call("addQueue", conn, "promise", 0, 0)
            /\ channels' = [channels EXCEPT ![connections[conn]] = @ \cup {QueueKey(name)}]
    /\ emitted' = <<>>
    /\ raised' = NoEvent
    /\ signals' = 0
    /\ UNCHANGED subscribeCalls
    /\ UNCHANGED <<connections, nextPair, pairName, connState, closeP,
                   ackIntervalId, timers, agg, atFailure>>

\* The second argument of startSubscription: a connection name (a string), or
\* the exclusive flag or nothing.
ExclusiveArgs ==
    [isString : {TRUE}, name : Names \cup {""}] \cup {[isString |-> FALSE, name |-> Undef]}

\* index.js:303-307. A string in the place of exclusive is the connection
\* name, whatever the third argument is.
StartConnection(exclusive, connectionName) ==
    IF exclusive.isString THEN OrDefault(exclusive.name) ELSE OrDefault(connectionName)

\* getQueue looking the queue up on any registered connection.
QueueDeclaredAnywhere(queueName, conn) ==
    /\ IsRegistered(conn)
    /\ \E i \in Registered : QueueKey(queueName) \in channels[i]

\* index.js:308 and 173-181. getQueue reads the registry of the connection,
\* which throws when the connection is not registered; the result is whether
\* the queue is declared.
QueueDeclared(queueName, conn) ==
    /\ IsRegistered(conn)
    /\ QueueKey(queueName) \in channels[connections[conn]]

\* index.js:299-315.
StartSubscription(queueName, exclusive, connectionName) ==
    LET conn == StartConnection(exclusive, connectionName) IN
    /\ IF QueueDeclared(queueName, conn)
       THEN /\ subscribeCalls' = [subscribeCalls EXCEPT ![connections[conn]] = @ \cup {queueName}]
            /\ lastCall' = Call("startSubscription", conn, "returned", connections[conn], 0)
       ELSE /\ lastCall' = Call("startSubscription", conn, "threw", 0, 0)
            /\ UNCHANGED subscribeCalls
    /\ emitted' = <<>>
    /\ raised' = NoEvent
    /\ signals' = 0
    /\ UNCHANGED <<connections, nextPair, pairName, connState, closeP,
                   ackIntervalId, timers, agg, channels, atFailure>>

\* ------------------------------------------------------------------ publish
\* The third argument of the positional form, or the options of the other:
\* whether there is a body at all, and its connectionName field.
Messages ==
    [present : {TRUE}, connectionName : Names \cup {Undef}]
        \cup {[present |-> FALSE, connectionName |-> Undef]}

NoPublish ==
    [form |-> "none", explicit |-> Undef, present |-> FALSE, field |-> Undef,
     resolved |-> "", outcome |-> "none", deadline |-> FALSE]

\* index.js:233 and 235. The connection a publish resolves, or "TypeError".
\* Positional form: connectionName || message.connectionName || "default",
\* which reads a property of message when connectionName is not given.
\* Options form: message || options.connectionName || "default", where
\* message is the third argument, the connection name.
PublishConnection(form, explicit, msg) ==
    IF form = "options"
    THEN IF explicit # Undef THEN explicit
         ELSE IF msg.connectionName # Undef THEN msg.connectionName
         ELSE "default"
    ELSE IF explicit # Undef THEN explicit
         ELSE IF ~msg.present THEN "TypeError"
         ELSE IF msg.connectionName # Undef THEN msg.connectionName
         ELSE "default"

\* index.js:228-254. What a publish call comes to: it throws when the
\* connection name cannot be read, when this.connections has no such
\* connection (248) or its Topology no such exchange (252-253).
PublishResult(form, exchangeName, explicit, msg) ==
    LET conn == PublishConnection(form, explicit, msg)
        base == [form |-> form, explicit |-> explicit, present |-> msg.present,
                 field |-> msg.connectionName, resolved |-> conn,
                 outcome |-> "threw", deadline |-> FALSE]
    IN  IF conn = "TypeError" THEN base
        ELSE IF ~IsRegistered(conn) THEN base
        ELSE IF ExchangeKey(exchangeName) \notin channels[connections[conn]]
             THEN [base EXCEPT !.deadline = publishTimeout[connections[conn]]]
        ELSE [base EXCEPT !.outcome = "published",
                          !.deadline = publishTimeout[connections[conn]]]

Publish(form, exchangeName, explicit, msg) ==
    /\ lastPublish' = PublishResult(form, exchangeName, explicit, msg)
    /\ UNCHANGED <<requests, lastReply, publishTimeout>>

\* ------------------------------------------------------------------ request
NoReply == [id |-> 0, end |-> FALSE, resolved |-> {}, notified |-> {}]

\* index.js:257. connectionName || options.connectionName || 'default'
RequestConnection(explicit, optionsConnection) ==
    IF explicit # Undef THEN explicit
    ELSE IF optionsConnection # Undef THEN optionsConnection
    ELSE "default"

\* index.js:256-272. The request gets a fresh identifier (uuid.v1), its
\* subscription on the responses channel is made, and the options are
\* published; a publish that throws inside when.promise rejects the future.
Request(exchangeName, optionsConnection, explicit) ==
    LET conn == RequestConnection(explicit, optionsConnection)
        pub == PublishResult("options", exchangeName, Undef,
                             [present |-> TRUE, connectionName |-> conn])
    IN  /\ Len(requests) < MaxRequests
        /\ lastPublish' = pub
        /\ requests' = Append(requests,
              [id |-> Len(requests) + 1,
               state |-> IF pub.outcome = "threw" THEN "rejected" ELSE "pending",
               subscribed |-> TRUE,
               notified |-> FALSE,
               resolutions |-> 0,
               resolvedBy |-> NoReply.id])
        /\ UNCHANGED <<lastReply, publishTimeout>>

\* The callback treats every reply as the terminal one.
OnReplyIgnoringMarker(request, end) ==
    [request EXCEPT
        !.state = IF request.state = "pending" THEN "resolved" ELSE @,
        !.resolutions = IF request.state = "pending" THEN @ + 1 ELSE @,
        !.subscribed = FALSE]

\* index.js:262-269. The subscription's callback: a reply with the
\* sequence_end header resolves the future and removes the subscription, any
\* other notifies; a settled future ignores resolve and notify.
OnReply(request, end) ==
    IF end
    THEN [request EXCEPT
            !.state = IF request.state = "pending" THEN "resolved" ELSE @,
            !.resolutions = IF request.state = "pending" THEN @ + 1 ELSE @,
            !.subscribed = FALSE]
    ELSE [request EXCEPT
            !.notified = IF request.state = "pending" THEN TRUE ELSE @]

\* The subscriptions on the responses channel a reply is published to: its
\* topic is the correlation identifier of the reply.
Subscribers(correlationId) ==
    {r \in DOMAIN requests :
        requests[r].subscribed /\ requests[r].id = correlationId}

\* A reply arrives on the reply queue and is published on the responses
\* channel under its correlation identifier.
Reply(correlationId, end) ==
    LET called == Subscribers(correlationId)
        after == [r \in DOMAIN requests |->
                    IF r \in called
                    THEN [OnReply(requests[r], end) EXCEPT
                            !.resolvedBy =
                                IF requests[r].state = "pending"
                                     /\ OnReply(requests[r], end).state = "resolved"
                                THEN correlationId ELSE @]
                    ELSE requests[r]]
    IN  /\ requests' = after
        /\ lastReply' =
              [id |-> correlationId, end |-> end,
               resolved |-> {r \in called : requests[r].state = "pending"
                                            /\ after[r].state = "resolved"},
               notified |-> {r \in called : requests[r].state = "pending"
                                            /\ after[r].state = "pending"}]
        /\ UNCHANGED <<lastPublish, publishTimeout>>

\* ------------------------------------------------------------ specification
Init ==
    /\ connections = [n \in Names |-> 0]
    /\ nextPair = 0
    /\ pairName = [i \in PairIds |-> ""]
    /\ connState = [i \in PairIds |-> "none"]
    /\ closeP = [i \in PairIds |-> "none"]
    /\ ackIntervalId = 0
    /\ timers = [t \in TimerIds |-> 0]
    /\ emitted = <<>>
    /\ raised = NoEvent
    /\ lastCall = NoCall
    /\ agg = NoAggregate
    /\ channels = [i \in PairIds |-> {}]
    /\ atFailure = [i \in PairIds |-> {}]
    /\ subscribeCalls = [i \in PairIds |-> {}]
    /\ signals = 0
    /\ hasHandles = FALSE
    /\ autoNack = FALSE
    /\ nackMode = FALSE
    /\ subs = <<>>
    /\ onUnhandled = "nackOnUnhandled"
    /\ customOnUnhandled = "noop"
    /\ lastPolicyCall = "none"
    /\ lastDelivery = NoDelivery
    /\ publishTimeout = [i \in PairIds |-> FALSE]
    /\ requests = <<>>
    /\ lastPublish = NoPublish
    /\ lastReply = NoReply

\* The connection registry, its lifecycle and the ack timer.
Next ==
    \/ \E o \in ConnOptions : AddConnection(o) /\ UNCHANGED notAddConnection
    \/ \E id \in PairIds : ConnConnected(id) /\ UNCHANGED notLifecycle
    \/ \E id \in PairIds : ConnFailed(id) /\ UNCHANGED notLifecycle
    \/ \E id \in PairIds : ConnUnreachable(id) /\ UNCHANGED notLifecycle
    \/ \E id \in PairIds : ConnClosed(id) /\ UNCHANGED notLifecycle
    \/ \E id \in PairIds : CloseRejected(id) /\ UNCHANGED notLifecycle
    \/ \E n \in Names \cup {Undef}, reset \in BOOLEAN : Close(n, reset) /\ UNCHANGED notLifecycle
    \/ \E reset \in BOOLEAN : CloseAll(reset) /\ UNCHANGED notLifecycle
    \/ Shutdown /\ UNCHANGED notLifecycle
    \/ Reset /\ UNCHANGED notLifecycle
    \/ \E ms \in Intervals : SetAckInterval(ms) /\ UNCHANGED notLifecycle
    \/ ClearAckInterval /\ UNCHANGED notLifecycle

Spec == Init /\ [][Next]_vars

\* The facade driven by lifecycle events and close calls only: the
\* application arms and clears the ack timer through no call of its own.
LifecycleNext ==
    \/ \E o \in ConnOptions : AddConnection(o) /\ UNCHANGED notAddConnection
    \/ \E id \in PairIds : ConnConnected(id) /\ UNCHANGED notLifecycle
    \/ \E id \in PairIds : ConnFailed(id) /\ UNCHANGED notLifecycle
    \/ \E id \in PairIds : ConnUnreachable(id) /\ UNCHANGED notLifecycle
    \/ \E id \in PairIds : ConnClosed(id) /\ UNCHANGED notLifecycle
    \/ \E id \in PairIds : CloseRejected(id) /\ UNCHANGED notLifecycle
    \/ \E n \in Names \cup {Undef}, reset \in BOOLEAN : Close(n, reset) /\ UNCHANGED notLifecycle
    \/ \E reset \in BOOLEAN : CloseAll(reset) /\ UNCHANGED notLifecycle

LifecycleSpec == Init /\ [][LifecycleNext]_vars

\* The dispatch of inbound messages to handlers and the handler failure mode.
DispatchNext ==
    \/ \E t \in MessageTypes, q \in QueueNames \cup {Absent} : Handle(t, q) /\ UNCHANGED <<lifecycleVars, messagingVars>>
    \/ IgnoreHandlerErrors /\ UNCHANGED <<lifecycleVars, messagingVars>>
    \/ NackOnError /\ UNCHANGED <<lifecycleVars, messagingVars>>
    \/ \E q \in QueueNames, t \in MessageTypes :
          \E f \in SUBSET Matching(DispatchTopic(q, t)) :
             Deliver(q, t, f) /\ UNCHANGED <<lifecycleVars, messagingVars>>

DispatchSpec == Init /\ [][DispatchNext]_vars

\* The dispatch of inbound messages and the unhandled-message policy.
PolicyNext ==
    \/ \E t \in MessageTypes, q \in QueueNames \cup {Absent} : Handle(t, q) /\ UNCHANGED <<lifecycleVars, messagingVars>>
    \/ NackUnhandled /\ UNCHANGED <<lifecycleVars, messagingVars>>
    \/ RejectUnhandled /\ UNCHANGED <<lifecycleVars, messagingVars>>
    \/ \E h \in {"handler", Undef} : OnUnhandled(h) /\ UNCHANGED <<lifecycleVars, messagingVars>>
    \/ \E q \in QueueNames, t \in MessageTypes :
          Deliver(q, t, {}) /\ UNCHANGED <<lifecycleVars, messagingVars>>

PolicySpec == Init /\ [][PolicyNext]_vars

\* publish over the declared connections and exchanges.
PublishNext ==
    \/ \E o \in AllConnOptions : AddConnection(o) /\ UNCHANGED notAddConnection
    \/ \E f \in {"positional", "options"}, x \in ExchangeNames, h \in BOOLEAN,
          n \in Names \cup {Undef} :
          AddExchange(f, x, h, n) /\ UNCHANGED notLifecycle
    \/ \E f \in {"positional", "options"}, x \in ExchangeNames,
          n \in Names \cup {Undef}, m \in Messages :
          Publish(f, x, n, m) /\ UNCHANGED <<lifecycleVars, dispatchVars>>

PublishSpec == Init /\ [][PublishNext]_vars

\* request() and the replies to it over the declared connections and exchanges.
RequestNext ==
    \/ \E o \in ConnOptions : AddConnection(o) /\ UNCHANGED notAddConnection
    \/ \E f \in {"positional", "options"}, x \in ExchangeNames, h \in BOOLEAN,
          n \in Names \cup {Undef} :
          AddExchange(f, x, h, n) /\ UNCHANGED notLifecycle
    \/ \E x \in ExchangeNames, o \in Names \cup {Undef}, n \in Names \cup {Undef} :
          Request(x, o, n) /\ UNCHANGED <<lifecycleVars, dispatchVars>>
    \/ \E id \in 1..MaxRequests, end \in BOOLEAN :
          Reply(id, end) /\ UNCHANGED <<lifecycleVars, dispatchVars>>

RequestSpec == Init /\ [][RequestNext]_vars

\* Queue declarations and startSubscription over the registered connections.
SubscriptionNext ==
    \/ \E o \in ConnOptions : AddConnection(o) /\ UNCHANGED notAddConnection
    \/ \E q \in QueueIds, h \in BOOLEAN, n \in Names \cup {Undef} :
          AddQueue(q, h, n) /\ UNCHANGED notLifecycle
    \/ \E q \in QueueIds, e \in ExclusiveArgs, n \in Names \cup {Undef} :
          StartSubscription(q, e, n) /\ UNCHANGED notLifecycle
    \/ \E n \in Names : Close(n, TRUE) /\ UNCHANGED notLifecycle
    \/ Reset /\ UNCHANGED notLifecycle

SubscriptionSpec == Init /\ [][SubscriptionNext]_vars

\* The declared topology over the connections' lifecycle: declarations,
\* failures and reconnections, closes with and without reset.
TopologyNext ==
    \/ \E o \in ConnOptions : AddConnection(o) /\ UNCHANGED notAddConnection
    \/ \E x \in ExchangeNames, n \in Names \cup {Undef} :
          AddExchange("positional", x, TRUE, n) /\ UNCHANGED notLifecycle
    \/ \E n \in Names \cup {Undef} :
          AddQueue("q", TRUE, n) /\ UNCHANGED notLifecycle
    \/ \E id \in PairIds : ConnConnected(id) /\ UNCHANGED notLifecycle
    \/ \E id \in PairIds : ConnFailed(id) /\ UNCHANGED notLifecycle
    \/ \E id \in PairIds : ConnClosed(id) /\ UNCHANGED notLifecycle
    \/ \E n \in Names, reset \in BOOLEAN : Close(n, reset) /\ UNCHANGED notLifecycle

TopologySpec == Init /\ [][TopologyNext]_vars

\* The ack timer under the application's calls, the connections' events and
\* the passing of time.
AckNext ==
    \/ \E o \in ConnOptions : AddConnection(o) /\ UNCHANGED notAddConnection
    \/ \E id \in PairIds : ConnConnected(id) /\ UNCHANGED notLifecycle
    \/ \E id \in PairIds : ConnFailed(id) /\ UNCHANGED notLifecycle
    \/ \E id \in PairIds : ConnUnreachable(id) /\ UNCHANGED notLifecycle
    \/ \E ms \in Intervals : SetAckInterval(ms) /\ UNCHANGED notLifecycle
    \/ ClearAckInterval /\ UNCHANGED notLifecycle
    \/ \E ms \in Intervals : IntervalElapses(ms) /\ UNCHANGED notLifecycle

AckSpec == Init /\ [][AckNext]_vars

\* The dispatch of inbound messages over queues with similar names.
ScopeNext ==
    \/ \E t \in {Absent, Created}, q \in SimilarQueueNames \cup {Absent} :
          Handle(t, q) /\ UNCHANGED <<lifecycleVars, messagingVars>>
    \/ NackOnError /\ UNCHANGED <<lifecycleVars, messagingVars>>
    \/ \E q \in SimilarQueueNames, t \in MessageTypes :
          \E f \in SUBSET Matching(DispatchTopic(q, t)) :
             Deliver(q, t, f) /\ UNCHANGED <<lifecycleVars, messagingVars>>

ScopeSpec == Init /\ [][ScopeNext]_vars

\* ------------------------------------------------------------------ claims
\* The name addConnection registers under, read off its argument.
NameOf(o) == IF o.given /\ o.name \in Names THEN o.name ELSE "default"

\* C1. Idempotent registration: an addConnection call whose name is already
\* registered constructs no pair and changes no registration, calls connect()
\* on the registered Connection and returns the registered Topology; a call
\* whose name is not registered constructs exactly one pair and registers it;
\* so a registered name always maps to the one pair constructed for it.
C1_IdempotentRegistration ==
    /\ [](\A n \in Names : IsRegistered(n) =>
            /\ connections[n] <= nextPair
            /\ pairName[connections[n]] = n)
    /\ [][\A o \in ConnOptions : AddConnection(o) =>
            IF connections[NameOf(o)] # 0
            THEN /\ nextPair' = nextPair
                 /\ connections' = connections
                 /\ pairName' = pairName
                 /\ lastCall'.topology = connections[NameOf(o)]
                 /\ lastCall'.connectOn = connections[NameOf(o)]
                 /\ connState'[connections[NameOf(o)]] \notin {"closed", "unreachable"}
            ELSE /\ nextPair' = nextPair + 1
                 /\ connections' = [connections EXCEPT ![NameOf(o)] = nextPair + 1]
                 /\ lastCall'.topology = nextPair + 1
                 /\ lastCall'.connectOn = 0]_vars

\* C1 witness: a second addConnection("a") after the first one's connection
\* closed: the call reconnected pair 1 and returned it, and no pair was added.
C1_Witness ==
    /\ lastCall.op = "addConnection"
    /\ lastCall.name = "a"
    /\ lastCall.connectOn = 1
    /\ lastCall.topology = 1
    /\ nextPair = 1
    /\ connState[1] = "connecting"
    /\ closeP[1] = "none"

SomeConnected ==
    \E n \in Names : IsRegistered(n) /\ connState[connections[n]] = "connected"

\* C5 (as claimed). Ack batcher liveness window: in every reachable state the
\* ack timer is armed only while some registered connection is connected.
C5_ArmedOnlyWhileConnected == TimerArmed => SomeConnected

\* C5 (amended). Under lifecycle events and close/closeAll calls the ack
\* timer becomes armed only in a step where a connection raises "connected",
\* and an armed timer is disarmed only in a step where a connection raises
\* "unreachable": "closed" and "failed" events and close calls leave it armed,
\* also when no registered connection is connected any more.
C5_ArmedFromConnectedToUnreachable ==
    [][/\ (~TimerArmed /\ TimerArmed') => raised'.kind = "connected"
       /\ (TimerArmed /\ ~TimerArmed') => raised'.kind = "unreachable"]_vars

\* C5 witness: the only connection was connected and has closed after a
\* close(); the timer armed by its "connected" event is still armed.
C5_Witness ==
    /\ raised = [id |-> 1, kind |-> "closed"]
    /\ TimerArmed
    /\ ~SomeConnected
    /\ timers[ackIntervalId] = AckIntervalMs

\* C6 (as claimed). close() of a name that is not registered is a no-op that
\* returns success: it does not throw.
C6_CloseUnknownIsNoOp ==
    (lastCall.op = "close" /\ ~IsRegistered(lastCall.name)) =>
        lastCall.outcome = "promise"

\* C7 (as claimed). Once shutdown() was called and all its closes have
\* settled, fulfilled or rejected, the ack timer is disarmed.
C7_ShutdownDisarms ==
    [][/\ (agg.kind = "shutdown" /\ agg.pending # {} /\ agg'.pending = {})
            => ~TimerArmed'
       /\ (Shutdown /\ agg'.pending = {}) => ~TimerArmed']_vars

QualifiedSuffix(kind) ==
    CASE kind = "connected" -> ".connection.opened"
      [] kind = "closed" -> ".connection.closed"
      [] kind = "failed" -> ".connection.failed"
      [] kind = "unreachable" -> ".connection.unreachable"

Range(seq) == {seq[i] : i \in DOMAIN seq}

\* C8 (as claimed). Lifecycle relay: every lifecycle event of a connection
\* named n is relayed as the generic event and as the qualified event
\* n + ".connection." + kind, and a qualified event of n is emitted for no
\* other transition.
C8_LifecycleRelay ==
    /\ raised # NoEvent => raised.kind \in Range(emitted)
    /\ \A n \in Names, k \in LifecycleKinds :
          (n \o QualifiedSuffix(k)) \in Range(emitted)
              <=> (raised.kind = k /\ raised.id # 0 /\ pairName[raised.id] = n)

\* C3 (as claimed). Handler failure policy: a failing handler's message is
\* nacked exactly when the most recent mode call before the failure was
\* nackOnError(), whatever the order of handle() and the mode calls.
C3_NackFollowsCurrentMode ==
    \A i \in lastDelivery.failed : (i \in lastDelivery.nacked) <=> lastDelivery.nackMode

\* C3 (amended). A failing handler's message is nacked exactly when the most
\* recent mode call before the handle() that registered that handler was
\* nackOnError(); mode calls made after the registration do not change it.
C3_NackFollowsRegistrationMode ==
    /\ autoNack = nackMode
    /\ \A i \in lastDelivery.failed : (i \in lastDelivery.nacked) <=> subs[i].nackMode

\* C3 witness: two handlers fail on one message after ignoreHandlerErrors();
\* the one registered under nackOnError() nacks it, the other does not.
C3_Witness ==
    /\ ~lastDelivery.nackMode
    /\ \E i, j \in lastDelivery.failed :
          /\ i \in lastDelivery.nacked /\ subs[i].nackMode
          /\ j \notin lastDelivery.nacked /\ ~subs[j].nackMode

\* C4 (as claimed). Topic routing, for every message delivered after the
\* subscription was made: handle("created", h, "orders") is called exactly for
\* the messages of type "created" from queue "orders"; handle("created", h) is
\* called for every message of type "created", from any queue;
\* handle(undefined, h, "orders") is called exactly for the messages from
\* queue "orders", of every type.
C4_TopicRouting ==
    \A i \in 1..lastDelivery.nsubs :
        /\ (subs[i].mtype = Created /\ subs[i].queue = Orders) =>
              (i \in lastDelivery.invoked
                  <=> (lastDelivery.mtype = Created /\ lastDelivery.queue = Orders))
        /\ (subs[i].mtype = Created /\ subs[i].queue = Absent) =>
              (lastDelivery.mtype = Created => i \in lastDelivery.invoked)
        /\ (subs[i].mtype = Absent /\ subs[i].queue = Orders) =>
              (i \in lastDelivery.invoked <=> lastDelivery.queue = Orders)

\* The strategy a policy call selects, by what it does to a message.
SelectedBy(call) ==
    CASE call \in {"none", "nackUnhandled"} -> "nack"
      [] call = "rejectUnhandled" -> "reject"
      [] call = "onUnhandled(fn)" -> "custom"
      [] call = "onUnhandled()" -> "noop"

\* C9 (as claimed). Unhandled-message policy: a message classified as
\* unhandled is processed by the strategy the most recent policy call before
\* the classification selected: nack initially and after nackUnhandled(),
\* reject after rejectUnhandled(), the callback after onUnhandled(fn), and a
\* no-op after onUnhandled() without a callback.
C9_UnhandledPolicy ==
    lastDelivery.outcome \notin {"none", "handled"} =>
        lastDelivery.outcome = SelectedBy(lastDelivery.policyCall)

C10_ConnectionResolution ==
    lastPublish.form # "none" =>
        lastPublish.resolved =
            IF lastPublish.explicit # Undef THEN lastPublish.explicit
            ELSE IF lastPublish.field # Undef THEN lastPublish.field
            ELSE "default"

\* C11. startSubscription(queueName, exclusive?, connName?) throws whenever
\* the queue is not declared on the connection it resolves, and then calls
\* subscribe on no queue; when the queue is declared it calls subscribe on
\* exactly that queue of that connection and returns it.
C11_StartSubscription ==
    [][\A q \in QueueIds, e \in ExclusiveArgs, n \in Names \cup {Undef} :
          StartSubscription(q, e, n) =>
             LET conn == IF e.isString
                         THEN (IF e.name = "" THEN "default" ELSE e.name)
                         ELSE (IF n = Undef THEN "default" ELSE n)
             IN  IF connections[conn] # 0 /\ ("queue:" \o q) \in channels[connections[conn]]
                 THEN /\ lastCall'.outcome = "returned"
                      /\ lastCall'.topology = connections[conn]
                      /\ subscribeCalls' =
                            [i \in PairIds |-> IF i = connections[conn]
                                               THEN subscribeCalls[i] \cup {q}
                                               ELSE subscribeCalls[i]]
                 ELSE /\ lastCall'.outcome = "threw"
                      /\ subscribeCalls' = subscribeCalls]_vars

\* C11 witness: queue "q" is declared on both connections and "r" on "a";
\* startSubscription("q", "a") returned and subscribe was called on "q" of
\* connection "a" alone.
C11_Witness ==
    /\ lastCall.op = "startSubscription"
    /\ lastCall.outcome = "returned"
    /\ lastCall.name = "a"
    /\ connections["default"] # 0
    /\ "queue:q" \in channels[connections["default"]]
    /\ "queue:r" \in channels[connections["a"]]
    /\ subscribeCalls[connections["a"]] = {"q"}
    /\ subscribeCalls[connections["default"]] = {}

\* C12 (as claimed). Global reset: right after reset() the broker is as
\* freshly constructed: no connection is registered, the ack timer is
\* disarmed, and the handler-error mode and the has-handlers flag have their
\* initial values.
C12_ResetIsColdStart ==
    lastCall.op = "reset" =>
        /\ \A n \in Names : ~IsRegistered(n)
        /\ ~TimerArmed
        /\ autoNack = FALSE
        /\ hasHandles = FALSE

\* C20 (as claimed). Single relay per transition: a lifecycle event raised by
\* a connection that is registered is relayed exactly once as the generic
\* broker event, and an event raised by a connection that is no longer
\* registered causes no broker event.
C20_SingleRelay ==
    raised.id # 0 =>
        IF raised.id \in Registered
        THEN Cardinality({i \in DOMAIN emitted : emitted[i] = raised.kind}) = 1
        ELSE emitted = <<>>

ArmedTimers == {t \in TimerIds : timers[t] # 0}

\* C14. Ack batching: after any sequence of setAckInterval, clearAckInterval
\* and connected events at most one ack timer is armed, so an elapsed interval
\* publishes exactly one ack signal when the timer is armed with it and none
\* otherwise; after clearAckInterval() no timer is armed, and while none is
\* armed no signal is published.
C14_AckBatching ==
    /\ [](Cardinality(ArmedTimers) <= 1 /\ signals <= 1)
    /\ [][/\ \A ms \in Intervals :
                (IntervalElapses(ms) /\ \E t \in TimerIds : timers[t] = ms)
                    => signals' = 1
          /\ ClearAckInterval => ArmedTimers' = {}
          /\ ArmedTimers = {} => signals' = 0]_vars

\* C14 witness: the timer was armed more than once (its handle is not the
\* first one) and an interval has elapsed: one signal was published.
C14_Witness ==
    /\ signals = 1
    /\ ackIntervalId > 1
    /\ ArmedTimers = {ackIntervalId}

\* C15. Ack-batcher effect of each lifecycle event: a "connected" event of
\* any connection leaves exactly one timer armed, at 500 ms; "failed" and
\* "closed" events leave the timers as they are (the continuation of a
\* shutdown() that a "closed" event completes is not the handler's effect);
\* an "unreachable" event of any connection leaves no timer armed, also while
\* other connections are connected; and a disarmed timer becomes armed only
\* by a "connected" event or a setAckInterval call.
C15_AckEffectOfEvents ==
    [][/\ \A id \in PairIds :
            /\ ConnConnected(id) =>
                  /\ ArmedTimers' = {ackIntervalId'}
                  /\ timers'[ackIntervalId'] = AckIntervalMs
            /\ ConnFailed(id) => (timers' = timers /\ ackIntervalId' = ackIntervalId)
            /\ (ConnClosed(id) /\ ~ShutdownCallbackRuns(agg, agg')) =>
                  (timers' = timers /\ ackIntervalId' = ackIntervalId)
            /\ ConnUnreachable(id) => ArmedTimers' = {}
       /\ (ArmedTimers = {} /\ ArmedTimers' # {}) =>
             (raised'.kind = "connected" \/ lastCall'.op = "setAckInterval")]_vars

\* C15 witness: one connection has become unreachable while another one is
\* connected; no timer is armed.
C15_Witness ==
    /\ raised.kind = "unreachable"
    /\ \E n \in Names :
          /\ IsRegistered(n)
          /\ connections[n] # raised.id
          /\ connState[connections[n]] = "connected"
    /\ ArmedTimers = {}
    /\ ackIntervalId # 0

\* C16 (as claimed). closeAll(reset) starts one close for each registered
\* connection, and its result settles, fulfilled or rejected, only after
\* every one of these closes has settled.
C16_CloseAllAggregates ==
    agg.kind = "closeAll" =>
        /\ agg.pending \subseteq {i \in PairIds : closeP[i] = "pending"}
        /\ agg.state \in {"fulfilled", "rejected"} => agg.pending = {}

\* C17 (as claimed). Default connection for topology declarations: an
\* addExchange call, in the form (name, type, opts, connName) with or without
\* opts and in the form (opts, connName), declares the exchange on the
\* connection connName when it is given and on "default" when it is omitted;
\* when that connection is registered the call does not fail.
C17_AddExchangeDefault ==
    [][\A f \in {"positional", "options"}, x \in ExchangeNames, h \in BOOLEAN,
          n \in Names \cup {Undef} :
          (AddExchange(f, x, h, n) /\ connections[IF n = Undef THEN "default" ELSE n] # 0) =>
              LET target == IF n = Undef THEN "default" ELSE n IN
              /\ lastCall'.outcome = "promise"
              /\ lastCall'.name = target
              /\ ("exchange:" \o x) \in channels'[connections[target]]]_vars

\* C18 (as claimed). Queue scoping, for every message delivered after the
\* subscription was made: a subscription registered with a queue name is
\* called only for messages consumed from that queue, also when another
\* queue's name differs from it in "." against "-" only; a subscription
\* registered without a queue name is called for the messages of its type,
\* or of every type when it names none, from any queue.
C18_QueueScoping ==
    \A i \in 1..lastDelivery.nsubs :
        /\ (subs[i].queue # Absent /\ i \in lastDelivery.invoked) =>
              lastDelivery.queue = subs[i].queue
        /\ (subs[i].queue = Absent /\ subs[i].mtype \in {Absent, lastDelivery.mtype}) =>
              i \in lastDelivery.invoked

\* C19 (as claimed). Reply-subscription lifetime: in every reachable state a
\* request's reply subscription is registered if and only if its future is
\* still pending: once the future has settled, by a terminal reply or by the
\* rejection of a failing publish, the subscription is gone.
C19_SubscriptionLifetime ==
    \A r \in DOMAIN requests :
        requests[r].subscribed <=> requests[r].state = "pending"
=============================================================================
